---- MODULE Spec2Model ----
(***************************************************************************)
(* PennyWhales: scanners for low-priced stocks held by BlackRock and       *)
(* Vanguard.  The module models                                            *)
(*   - scanner_pro.py / scanner_pro_enhanced.py: analyze_ticker, the main  *)
(*     loop, calculate_ranking_score and the ranking sort;                 *)
(*   - u2.py: process_ticker (Yahoo only);                                 *)
(*   - u2_dual.py: process_ticker and compare_data_sources (Yahoo+Nasdaq). *)
(*                                                                         *)
(* Numbers.  Python floats are modelled as fixed-point decimals with three *)
(* places: the integer 1000*x stands for x (Dec).  scanner_pro*.py keep     *)
(* percentages on the 0-100 scale (4.0 is Dec(4,0)); u2.py and u2_dual.py   *)
(* keep fractions (0.04 is Dec(0,40)).  Arithmetic is exact.                *)
(*                                                                         *)
(* Optional values.  Python's None is the empty tuple, a present value x   *)
(* is the 1-tuple <<x>>.                                                   *)
(*                                                                         *)
(* Holder tables.  For the per-ticker functions, what a fetch returns is   *)
(* modelled by the figures its table parses to: None (nothing fetched) or  *)
(* a record [br, vg].  The parsers themselves are modelled row by row on   *)
(* tables of texts (SpecParse); a text is the sequence of its characters.  *)
(*                                                                         *)
(* Runs.  scanner_pro_enhanced's main is modelled run after run, with the  *)
(* processed-stocks file carried from one run to the next (SpecScan, and   *)
(* SpecRun for runs that are not interrupted).                             *)
(***************************************************************************)
EXTENDS Integers, Sequences, FiniteSets, TLC

VARIABLES
    requireBoth,   \* REQUIRE_BOTH_HOLDERS, the configured mode
    numTickers,    \* len(tickers) of the run
    idx,           \* tickers analysed so far by main's loop
    results,       \* main's list of qualifying stocks
    pc,            \* where the program is: "scan", "done", "call", "returned", ...
    last,          \* the call just made: its inputs, its locals, its return
    \* scanner_pro_enhanced.py, across runs
    persisted,        \* the 'stocks' of PROCESSED_STOCKS_FILE (absent file: {})
    runs,             \* runs of main started so far
    tickers,          \* main: tickers
    processed_stocks, \* main: processed_stocks, as loaded at the start
    tickers_to_scan,  \* main: tickers_to_scan
    new_stocks_only,  \* main: new_stocks_only
    output,           \* what the run has written to RESULTS_FILE, if anything
    analysed,         \* the analyze_ticker calls that returned in the run, in order
    everAnalysed      \* the tickers whose analysis returned in any run

scanVars == <<persisted, runs, tickers, processed_stocks, tickers_to_scan,
              new_stocks_only, output, analysed, everAnalysed>>

vars == <<requireBoth, numTickers, idx, results, pc, last, scanVars>>

----------------------------------------------------------------------------
(* Bounds and input domains *)

MaxTickers == 3

Dec(units, thousandths) == units * 1000 + thousandths

None == <<>>
Some(x) == <<x>>

\* Prices a lookup can return: absent, 0.50, 1.50, 2.00 (the ceiling), 2.50.
Prices == {None, Some(Dec(0, 500)), Some(Dec(1, 500)), Some(Dec(2, 0)), Some(Dec(2, 500))}

\* Figures on the 0-100 scale (scanner_pro*.py): 0, 1.0, 3.0, 4.0, 5.0.
PctValues == {0, Dec(1, 0), Dec(3, 0), Dec(4, 0), Dec(5, 0)}

\* Figures as fractions (u2.py, u2_dual.py): 0, 0.03, 0.04, 0.055.
FracValues == {0, Dec(0, 30), Dec(0, 40), Dec(0, 55)}

PctTables == {None} \cup {Some([br |-> b, vg |-> v]) : b \in PctValues, v \in PctValues}
FracTables == {None} \cup {Some([br |-> b, vg |-> v]) : b \in FracValues, v \in FracValues}

----------------------------------------------------------------------------
(* Configuration *)

PRICE_THRESHOLD == Dec(2, 0)

\* 4.0 on the 0-100 scale in scanner_pro*.py, 0.04 as a fraction in u2*.py.
HOLD_THRESHOLD_Zero(variant) == 0
HOLD_THRESHOLD_Low(variant) == IF variant = "scanner_pro" THEN Dec(1, 0) ELSE Dec(0, 10)
HOLD_THRESHOLD(variant) ==
    IF variant = "scanner_pro" THEN Dec(4, 0) ELSE Dec(0, 40)

----------------------------------------------------------------------------
(* Python helpers *)

\* max(a, b): a unless b > a.
Max2(a, b) == IF b > a THEN b ELSE a

Abs(x) == IF x < 0 THEN 0 - x ELSE x

----------------------------------------------------------------------------
(* Eligibility: the "Check criteria" block shared by all four scanners *)

meets_criteria_strict(variant, final_br, final_vg) ==
    IF requireBoth
    THEN final_br > HOLD_THRESHOLD(variant) /\ final_vg > HOLD_THRESHOLD(variant)
    ELSE final_br > HOLD_THRESHOLD(variant) \/ final_vg > HOLD_THRESHOLD(variant)

meets_criteria(variant, final_br, final_vg) ==
    IF requireBoth
    THEN final_br >= HOLD_THRESHOLD(variant) /\ final_vg >= HOLD_THRESHOLD(variant)
    ELSE final_br >= HOLD_THRESHOLD(variant) \/ final_vg >= HOLD_THRESHOLD(variant)

----------------------------------------------------------------------------
(* scanner_pro.py, scanner_pro_enhanced.py *)

\* The (blackrock_pct, vanguard_pct) a Nasdaq response parses to; (0.0, 0.0)
\* for no data.
parse_nasdaq_holdings(data) ==
    IF data = None THEN <<0, 0>> ELSE <<data[1].br, data[1].vg>>

\* analyze_ticker(ticker): price is info['currentPrice'] (None: the key is
\* missing), nasdaq_data is what get_nasdaq_data returned.
analyze_ticker(ticker, price, nasdaq_data) ==
    IF price = None THEN None
    ELSE IF price[1] >= PRICE_THRESHOLD THEN None
    ELSE IF nasdaq_data = None THEN None
    ELSE LET parsed == parse_nasdaq_holdings(nasdaq_data)
             final_br == parsed[1]
             final_vg == parsed[2]
         IN  IF ~meets_criteria("scanner_pro", final_br, final_vg) THEN None
             ELSE Some([ticker |-> ticker,
                        price |-> price[1],
                        blackrock_pct |-> final_br,
                        vanguard_pct |-> final_vg,
                        blackrock_source |-> "Nasdaq",
                        vanguard_source |-> "Nasdaq",
                        data_quality |-> "High",
                        sources_count |-> 1,
                        discrepancy |-> FALSE])

\* calculate_ranking_score(stock) -> (category, score).  The score of
\* category 1 is the tuple (-combined_holdings, price); the score of the
\* other categories is the float price, written as the 1-tuple <<price>>
\* (scores are only ever compared within one category).
calculate_ranking_score_lax(stock) ==
    LET br_pct == stock.blackrock_pct
        vg_pct == stock.vanguard_pct
        price == stock.price
    IN  IF br_pct >= Dec(4, 0) /\ vg_pct >= Dec(4, 0)
        THEN <<1, <<0 - (br_pct + vg_pct), price>> >>
        ELSE IF br_pct >= Dec(3, 0) \/ vg_pct >= Dec(3, 0)
        THEN <<2, <<price>> >>
        ELSE <<3, <<price>> >>

calculate_ranking_score(stock) ==
    LET br_pct == stock.blackrock_pct
        vg_pct == stock.vanguard_pct
        price == stock.price
        has_both == br_pct > 0 /\ vg_pct > 0
        has_br_4plus == br_pct >= Dec(4, 0)
        has_vg_4plus == vg_pct >= Dec(4, 0)
        has_br_3plus == br_pct >= Dec(3, 0)
        has_vg_3plus == vg_pct >= Dec(3, 0)
    IN  IF has_both /\ has_br_4plus /\ has_vg_4plus
        THEN <<1, <<0 - (br_pct + vg_pct), price>> >>
        ELSE IF (has_br_3plus /\ vg_pct > 0) \/ (has_vg_3plus /\ br_pct > 0)
        THEN <<2, <<price>> >>
        ELSE <<3, <<price>> >>

\* stock['rank_category'], stock['rank_score'] = calculate_ranking_score(stock)
with_rank(stock) ==
    [ticker |-> stock.ticker,
     price |-> stock.price,
     blackrock_pct |-> stock.blackrock_pct,
     vanguard_pct |-> stock.vanguard_pct,
     blackrock_source |-> stock.blackrock_source,
     vanguard_source |-> stock.vanguard_source,
     data_quality |-> stock.data_quality,
     sources_count |-> stock.sources_count,
     discrepancy |-> stock.discrepancy,
     rank_category |-> calculate_ranking_score(stock)[1],
     rank_score |-> calculate_ranking_score(stock)[2]]

\* Python's < on tuples of numbers: lexicographic.
RECURSIVE tuple_lt(_, _)
tuple_lt(a, b) ==
    IF a = <<>> THEN b # <<>>
    ELSE IF b = <<>> THEN FALSE
    ELSE IF Head(a) # Head(b) THEN Head(a) < Head(b)
    ELSE tuple_lt(Tail(a), Tail(b))

\* key=lambda x: (x['rank_category'], x['rank_score'])
sort_key_category_only(x) == <<x.rank_category>>
sort_key(x) == <<x.rank_category>> \o x.rank_score

\* list.sort(key=...) is a stable sort: an element goes behind every element
\* whose key is not greater than its own.
RECURSIVE insert_stable(_, _)
insert_stable(sorted, x) ==
    IF sorted = <<>> THEN <<x>>
    ELSE IF tuple_lt(sort_key(x), sort_key(Head(sorted)))
    THEN <<x>> \o sorted
    ELSE <<Head(sorted)>> \o insert_stable(Tail(sorted), x)

\* (The sorted front and the element are bound as values, so that they are
\* computed once.)
RECURSIVE list_sort(_)
list_sort(stocks) ==
    IF stocks = <<>> THEN <<>>
    ELSE CHOOSE r \in {insert_stable(sorted, x) :
                          sorted \in {list_sort(SubSeq(stocks, 1, Len(stocks) - 1))},
                          x \in {stocks[Len(stocks)]}} : TRUE

\* The first lines of display_results / save_results_to_json: rank every
\* stock, then sort the list in place.
rank_and_sort(qualifying_stocks) ==
    list_sort([k \in 1..Len(qualifying_stocks) |-> with_rank(qualifying_stocks[k])])

\* A premium list that does not look at the price.
premium_stocks_any_price(high_tier) ==
    SelectSeq(high_tier, LAMBDA s : /\ s.blackrock_pct >= Dec(5, 0)
                                    /\ s.vanguard_pct >= Dec(5, 0))

\* display_results: premium_stocks, the stocks of high_tier with both
\* holders at 5% or more under $1.
premium_stocks(high_tier) ==
    SelectSeq(high_tier, LAMBDA s : /\ s.blackrock_pct >= Dec(5, 0)
                                    /\ s.vanguard_pct >= Dec(5, 0)
                                    /\ s.price < Dec(1, 0))

\* display_results(qualifying_stocks, total_processed): the frame of the
\* call: stocks is the list as the call leaves it (ranked and sorted in
\* place, untouched when empty), high_tier and premium_stocks the locals of
\* these names (empty where they are not computed).
display_results(qualifying_stocks) ==
    IF qualifying_stocks = <<>>
    THEN [fn |-> "display_results", stocks |-> <<>>,
          high_tier |-> <<>>, premium_stocks |-> <<>>]
    ELSE CHOOSE frame \in
            {[fn |-> "display_results",
              stocks |-> stocks,
              high_tier |-> SelectSeq(stocks, LAMBDA s : s.rank_category = 1),
              premium_stocks |->
                  premium_stocks(SelectSeq(stocks, LAMBDA s : s.rank_category = 1))] :
                stocks \in {rank_and_sort(qualifying_stocks)}} : TRUE

----------------------------------------------------------------------------
(* u2.py *)

\* The (blackrock_pct, vanguard_pct) a Yahoo holders table parses to; (0, 0)
\* for None or an empty table.
parse_institutional_holdings(holders_df) ==
    IF holders_df = None THEN <<0, 0>> ELSE <<holders_df[1].br, holders_df[1].vg>>

\* process_ticker(ticker): price is
\* stock.info.get("currentPrice") or stock.fast_info.get("last_price").
process_ticker_u2(ticker, price, institutional_holders) ==
    IF price = None \/ price[1] > PRICE_THRESHOLD THEN None
    ELSE LET parsed == parse_institutional_holdings(institutional_holders)
             blackrock_pct == parsed[1]
             vanguard_pct == parsed[2]
         IN  IF ~meets_criteria("u2", blackrock_pct, vanguard_pct) THEN None
             ELSE Some([ticker |-> ticker,
                        price |-> price[1],
                        blackrock_pct |-> blackrock_pct,
                        vanguard_pct |-> vanguard_pct])

----------------------------------------------------------------------------
(* u2_dual.py *)

parse_yahoo_institutional_holdings(holders_df) ==
    IF holders_df = None THEN <<0, 0>> ELSE <<holders_df[1].br, holders_df[1].vg>>

parse_nasdaq_holdings_dual(nasdaq_data) ==
    IF nasdaq_data = None THEN <<0, 0>> ELSE <<nasdaq_data[1].br, nasdaq_data[1].vg>>

\* compare_data_sources: the differences are in percentage points
\* (abs(fraction difference) * 100), "> 1" is more than one point.
compare_data_sources_unguarded(yahoo_br, yahoo_vg, nasdaq_br, nasdaq_vg) ==
    LET blackrock_diff == Abs(yahoo_br - nasdaq_br) * 100
        vanguard_diff == Abs(yahoo_vg - nasdaq_vg) * 100
        has_discrepancy == blackrock_diff > Dec(1, 0) \/ vanguard_diff > Dec(1, 0)
    IN  [has_discrepancy |-> has_discrepancy,
         blackrock_diff |-> blackrock_diff,
         vanguard_diff |-> vanguard_diff,
         data_quality |->
             IF has_discrepancy THEN "medium"
             ELSE IF (yahoo_br > 0 \/ yahoo_vg > 0) /\ (nasdaq_br > 0 \/ nasdaq_vg > 0)
             THEN "high"
             ELSE "low"]

compare_data_sources_any_source(yahoo_br, yahoo_vg, nasdaq_br, nasdaq_vg) ==
    LET blackrock_diff ==
            IF yahoo_br > 0 /\ nasdaq_br > 0 THEN Abs(yahoo_br - nasdaq_br) * 100 ELSE 0
        vanguard_diff ==
            IF yahoo_vg > 0 /\ nasdaq_vg > 0 THEN Abs(yahoo_vg - nasdaq_vg) * 100 ELSE 0
        has_discrepancy == blackrock_diff > Dec(1, 0) \/ vanguard_diff > Dec(1, 0)
    IN  [has_discrepancy |-> has_discrepancy,
         blackrock_diff |-> blackrock_diff,
         vanguard_diff |-> vanguard_diff,
         data_quality |->
             IF has_discrepancy THEN "medium"
             ELSE IF (yahoo_br > 0 \/ yahoo_vg > 0) \/ (nasdaq_br > 0 \/ nasdaq_vg > 0)
             THEN "high"
             ELSE "low"]

compare_data_sources(yahoo_br, yahoo_vg, nasdaq_br, nasdaq_vg) ==
    LET blackrock_diff ==
            IF yahoo_br > 0 /\ nasdaq_br > 0 THEN Abs(yahoo_br - nasdaq_br) * 100 ELSE 0
        vanguard_diff ==
            IF yahoo_vg > 0 /\ nasdaq_vg > 0 THEN Abs(yahoo_vg - nasdaq_vg) * 100 ELSE 0
        has_discrepancy == blackrock_diff > Dec(1, 0) \/ vanguard_diff > Dec(1, 0)
    IN  [has_discrepancy |-> has_discrepancy,
         blackrock_diff |-> blackrock_diff,
         vanguard_diff |-> vanguard_diff,
         data_quality |->
             IF has_discrepancy THEN "medium"
             ELSE IF (yahoo_br > 0 \/ yahoo_vg > 0) /\ (nasdaq_br > 0 \/ nasdaq_vg > 0)
             THEN "high"
             ELSE "low"]

\* "Use the higher percentage from either source": max(yahoo_x, nasdaq_x).
final_pct_yahoo_only(yahoo_x, nasdaq_x) == yahoo_x
final_pct_both_sources(yahoo_x, nasdaq_x) ==
    IF yahoo_x = 0 \/ nasdaq_x = 0 THEN 0 ELSE Max2(yahoo_x, nasdaq_x)
final_pct(yahoo_x, nasdaq_x) == Max2(yahoo_x, nasdaq_x)

\* process_ticker(ticker, show_details).  The value is the frame of the call:
\* ret is what it returns, comparison the local of that name (None where
\* compare_data_sources is not called), final the local reconciled pair (None
\* where the price check returns first).
process_ticker_dual(ticker, show_details, price, institutional_holders, nasdaq_data) ==
    IF price = None \/ price[1] > PRICE_THRESHOLD
    THEN [ret |-> None, comparison |-> None, final |-> None]
    ELSE LET yahoo == parse_yahoo_institutional_holdings(institutional_holders)
             nasdaq == parse_nasdaq_holdings_dual(nasdaq_data)
             yahoo_br == yahoo[1]
             yahoo_vg == yahoo[2]
             nasdaq_br == nasdaq[1]
             nasdaq_vg == nasdaq[2]
             final_br == final_pct(yahoo_br, nasdaq_br)
             final_vg == final_pct(yahoo_vg, nasdaq_vg)
             comparison == compare_data_sources(yahoo_br, yahoo_vg, nasdaq_br, nasdaq_vg)
             data_quality == IF show_details THEN comparison.data_quality ELSE "medium"
             br_source == IF yahoo_br >= nasdaq_br THEN "Yahoo" ELSE "Nasdaq"
             vg_source == IF yahoo_vg >= nasdaq_vg THEN "Yahoo" ELSE "Nasdaq"
         IN  [ret |->
                  IF ~meets_criteria("u2_dual", final_br, final_vg) THEN None
                  ELSE Some([ticker |-> ticker,
                             price |-> price[1],
                             blackrock_pct |-> final_br,
                             vanguard_pct |-> final_vg,
                             blackrock_source |-> IF show_details THEN br_source ELSE "Unknown",
                             vanguard_source |-> IF show_details THEN vg_source ELSE "Unknown",
                             data_quality |-> data_quality,
                             yahoo_data |-> [br |-> yahoo_br, vg |-> yahoo_vg],
                             nasdaq_data |-> [br |-> nasdaq_br, vg |-> nasdaq_vg]]),
              comparison |-> IF show_details THEN Some(comparison) ELSE None,
              final |-> Some(<<final_br, final_vg>>)]

----------------------------------------------------------------------------
(* State machines *)

NoCall == [fn |-> "none"]

\* scanner_pro_enhanced's main has not run: no file, no locals.
ScanIdle ==
    /\ persisted = {}
    /\ runs = 0
    /\ tickers = <<>>
    /\ processed_stocks = {}
    /\ tickers_to_scan = <<>>
    /\ new_stocks_only = FALSE
    /\ output = None
    /\ analysed = <<>>
    /\ everAnalysed = {}

\* Spec: one run of scanner_pro's main.  The tickers are numbered in list
\* order; every iteration analyses the next one and appends a result.
Init ==
    /\ requireBoth \in BOOLEAN
    /\ numTickers \in 1..MaxTickers
    /\ idx = 0
    /\ results = <<>>
    /\ pc = "scan"
    /\ last = NoCall
    /\ ScanIdle

\* for i, ticker in enumerate(tickers, 1): result = analyze_ticker(ticker);
\* if result: results.append(result)
ScanTicker ==
    /\ pc = "scan"
    /\ idx < numTickers
    /\ \E price \in Prices, nasdaq_data \in PctTables :
          LET result == analyze_ticker(idx + 1, price, nasdaq_data)
          IN  results' = IF result # None THEN Append(results, result[1]) ELSE results
    /\ idx' = idx + 1
    /\ UNCHANGED <<requireBoth, numTickers, pc, last, scanVars>>

\* display_results(results, len(tickers)): nothing for an empty list, else
\* rank and sort the list in place and group it.
DisplayResults ==
    /\ pc = "scan"
    /\ idx = numTickers
    /\ \E frame \in {display_results(results)} :
          /\ results' = frame.stocks
          /\ last' = frame
    /\ pc' = "done"
    /\ UNCHANGED <<requireBoth, numTickers, idx, scanVars>>

Next == ScanTicker \/ DisplayResults

Spec == Init /\ [][Next]_vars

\* SpecTicker: one call of a scanner's per-ticker function on any inputs.
InitTicker ==
    /\ requireBoth \in BOOLEAN
    /\ numTickers = 1
    /\ idx = 0
    /\ results = <<>>
    /\ pc = "call"
    /\ last = NoCall
    /\ ScanIdle

CallAnalyzeTicker ==
    /\ pc = "call"
    /\ \E price \in Prices, nasdaq_data \in PctTables :
          last' = [fn |-> "analyze_ticker",
                   price |-> price,
                   yahoo |-> None,
                   nasdaq |-> nasdaq_data,
                   show_details |-> FALSE,
                   ret |-> analyze_ticker(1, price, nasdaq_data),
                   comparison |-> None,
                   final |-> None]
    /\ pc' = "returned"
    /\ UNCHANGED <<requireBoth, numTickers, idx, results, scanVars>>

CallProcessTickerU2 ==
    /\ pc = "call"
    /\ \E price \in Prices, holders \in FracTables :
          last' = [fn |-> "u2.process_ticker",
                   price |-> price,
                   yahoo |-> holders,
                   nasdaq |-> None,
                   show_details |-> FALSE,
                   ret |-> process_ticker_u2(1, price, holders),
                   comparison |-> None,
                   final |-> None]
    /\ pc' = "returned"
    /\ UNCHANGED <<requireBoth, numTickers, idx, results, scanVars>>

\* show_details is True in main's call and False by default.
CallProcessTickerDual ==
    /\ pc = "call"
    /\ \E show_details \in BOOLEAN, price \in Prices,
          holders \in FracTables, nasdaq_data \in FracTables :
          LET frame == process_ticker_dual(1, show_details, price, holders, nasdaq_data)
          IN  last' = [fn |-> "u2_dual.process_ticker",
                       price |-> price,
                       yahoo |-> holders,
                       nasdaq |-> nasdaq_data,
                       show_details |-> show_details,
                       ret |-> frame.ret,
                       comparison |-> frame.comparison,
                       final |-> frame.final]
    /\ pc' = "returned"
    /\ UNCHANGED <<requireBoth, numTickers, idx, results, scanVars>>

NextTicker == CallAnalyzeTicker \/ CallProcessTickerU2 \/ CallProcessTickerDual

SpecTicker == InitTicker /\ [][NextTicker]_vars

----------------------------------------------------------------------------
(* Claims about the ranking (Spec) *)

Ranked == pc = "done" /\ results # <<>>

combined(s) == s.blackrock_pct + s.vanguard_pct

claimed_tier(s) ==
    IF s.blackrock_pct >= Dec(4, 0) /\ s.vanguard_pct >= Dec(4, 0) THEN 1
    ELSE IF \/ s.blackrock_pct >= Dec(3, 0) /\ s.vanguard_pct # 0
            \/ s.vanguard_pct >= Dec(3, 0) /\ s.blackrock_pct # 0
    THEN 2
    ELSE 3

\* C1: every ranked security has exactly the tier the first-match-wins rule
\* gives: 1 iff both percentages are >= 4.0, else 2 iff one is >= 3.0 and the
\* other is non-zero, else 3.
C1_TierAssignment ==
    Ranked => \A k \in 1..Len(results) :
                 /\ results[k].rank_category \in {1, 2, 3}
                 /\ results[k].rank_category = claimed_tier(results[k])

\* A ranked output holding a security with BlackRock >= 4.0 and Vanguard 0
\* (tier 3) next to a tier-2 security.
C1_Witness ==
    /\ Ranked
    /\ \E k \in 1..Len(results) :
          /\ results[k].blackrock_pct > Dec(4, 0)
          /\ results[k].vanguard_pct = 0
          /\ results[k].rank_category = 3
    /\ \E k \in 1..Len(results) : results[k].rank_category = 2

\* C2: in the ranked output a lower tier comes first; within tier 1 a higher
\* combined percentage comes first and equal combined percentages are in
\* ascending price; within tier 2 and within tier 3 prices ascend.
C2_RankedOrder ==
    Ranked => \A a, b \in 1..Len(results) :
                 a < b =>
                    LET x == results[a]
                        y == results[b]
                    IN  /\ x.rank_category <= y.rank_category
                        /\ (x.rank_category = 1 /\ y.rank_category = 1) =>
                              /\ combined(x) >= combined(y)
                              /\ combined(x) = combined(y) => x.price <= y.price
                        /\ (x.rank_category = y.rank_category /\ x.rank_category # 1) =>
                              x.price <= y.price

\* Two tier-1 securities with equal combined percentage that the sort had to
\* swap: the cheaper one was scanned second and is ranked first.
C2_Witness ==
    /\ Ranked
    /\ Len(results) >= 2
    /\ results[1].rank_category = 1
    /\ results[2].rank_category = 1
    /\ combined(results[1]) = combined(results[2])
    /\ results[1].price < results[2].price
    /\ results[1].ticker > results[2].ticker

reordered(stocks, f) == [k \in 1..Len(stocks) |-> stocks[f[k]]]

\* C3: the ranked output is the same for every ordering of the same set of
\* qualifying securities.
C3_OrderIndependent ==
    Ranked => \A f \in Permutations(1..Len(results)) :
                 rank_and_sort(reordered(results, f)) = results

----------------------------------------------------------------------------
(* Claims about one ticker (SpecTicker) *)

Returned == pc = "returned"

\* What a source reports for a category: zero when it reports nothing.
reported(source, cat) == IF source = None THEN 0 ELSE source[1][cat]

\* The greater of the two sources' reports.
greatest_report(cat) ==
    IF reported(last.yahoo, cat) >= reported(last.nasdaq, cat)
    THEN reported(last.yahoo, cat)
    ELSE reported(last.nasdaq, cat)

claimed_threshold == IF last.fn = "analyze_ticker" THEN Dec(4, 0) ELSE Dec(0, 40)

\* C4: a ticker whose price is absent or at or above the ceiling (2.00
\* included) never qualifies, in every scanner.
C4_CeilingExclusive ==
    (Returned /\ (last.price = None \/ last.price[1] >= Dec(2, 0))) => last.ret = None

\* C5: with a price present and below the ceiling, the ticker qualifies iff
\* both reconciled percentages (require-all) or at least one of them
\* (require-any) are >= the holding threshold.
C5_Eligibility ==
    (Returned /\ last.price # None /\ last.price[1] < Dec(2, 0)) =>
        (last.ret # None <=>
            IF requireBoth
            THEN /\ greatest_report("br") >= claimed_threshold
                 /\ greatest_report("vg") >= claimed_threshold
            ELSE \/ greatest_report("br") >= claimed_threshold
                 \/ greatest_report("vg") >= claimed_threshold)

\* Require-all mode, BlackRock exactly at the threshold (0.04, from Yahoo),
\* Vanguard above it (from Nasdaq): the ticker qualifies.
C5_Witness ==
    /\ Returned
    /\ requireBoth
    /\ last.fn = "u2_dual.process_ticker"
    /\ last.price = Some(Dec(1, 500))
    /\ greatest_report("br") = Dec(0, 40)
    /\ reported(last.nasdaq, "br") = 0
    /\ greatest_report("vg") > Dec(0, 40)
    /\ last.ret # None

C7_ReconciledIsMax ==
    (Returned /\ last.fn = "u2_dual.process_ticker" /\ last.final # None) =>
        /\ last.final[1][1] = greatest_report("br")
        /\ last.final[1][2] = greatest_report("vg")
        /\ last.ret # None =>
              /\ last.ret[1].blackrock_pct = greatest_report("br")
              /\ last.ret[1].vanguard_pct = greatest_report("vg")

\* Nasdaq reports the higher BlackRock figure, Yahoo alone reports Vanguard,
\* and the result carries Nasdaq's BlackRock and Yahoo's Vanguard figure.
C7_Witness ==
    /\ Returned
    /\ last.fn = "u2_dual.process_ticker"
    /\ last.ret # None
    /\ reported(last.yahoo, "br") > 0
    /\ reported(last.yahoo, "br") < reported(last.nasdaq, "br")
    /\ reported(last.nasdaq, "vg") = 0
    /\ reported(last.yahoo, "vg") > 0
    /\ last.ret[1].blackrock_pct = reported(last.nasdaq, "br")
    /\ last.ret[1].vanguard_pct = reported(last.yahoo, "vg")

Cats == {"br", "vg"}

\* Both sources report a non-zero figure for cat and the figures differ by
\* more than 1.0 percentage point (0.010 as a fraction).
disagree(cat) ==
    LET y == reported(last.yahoo, cat)
        n == reported(last.nasdaq, cat)
    IN  y # 0 /\ n # 0 /\ (y - n > Dec(0, 10) \/ n - y > Dec(0, 10))

reports_some(source) == \E cat \in Cats : reported(source, cat) # 0

Compared == Returned /\ last.comparison # None

single_source == reports_some(last.yahoo) # reports_some(last.nasdaq)

\* C9: a result for a ticker that only one source reports data for never
\* carries the quality MEDIUM, with or without detail output.
C9_SingleSourceNeverMedium ==
    (Returned /\ last.fn = "u2_dual.process_ticker" /\ last.ret # None /\ single_source) =>
        last.ret[1].data_quality # "medium"

claimed_diff(cat) ==
    LET y == reported(last.yahoo, cat)
        n == reported(last.nasdaq, cat)
    IN  IF y # 0 /\ n # 0
        THEN (IF y >= n THEN y - n ELSE n - y) * 100
        ELSE 0

\* C10: the discrepancy of a category is the absolute difference of the two
\* sources' figures in percentage points when both are non-zero, else 0.
C10_Discrepancy ==
    Compared =>
        /\ last.comparison[1].blackrock_diff = claimed_diff("br")
        /\ last.comparison[1].vanguard_diff = claimed_diff("vg")

\* BlackRock: Yahoo 0.03 against Nasdaq 0.055, 2.5 points apart; Vanguard:
\* reported by Nasdaq alone, discrepancy 0.
C10_Witness ==
    /\ Compared
    /\ reported(last.yahoo, "br") = Dec(0, 30)
    /\ reported(last.nasdaq, "br") = Dec(0, 55)
    /\ reported(last.yahoo, "vg") = 0
    /\ reported(last.nasdaq, "vg") = Dec(0, 40)
    /\ last.comparison[1].blackrock_diff = Dec(2, 500)
    /\ last.comparison[1].vanguard_diff = 0

----------------------------------------------------------------------------
(* Python strings: a string is the sequence of its characters *)

Lowercase == <<"a", "b", "c", "d", "e", "f", "g", "h", "i", "j", "k", "l", "m", "n", "o", "p", "q", "r", "s", "t", "u", "v", "w", "x", "y", "z">>
Uppercase == <<"A", "B", "C", "D", "E", "F", "G", "H", "I", "J", "K", "L", "M", "N", "O", "P", "Q", "R", "S", "T", "U", "V", "W", "X", "Y", "Z">>
DigitChars == <<"0", "1", "2", "3", "4", "5", "6", "7", "8", "9">>

char_upper(c) ==
    IF \E i \in 1..26 : Lowercase[i] = c
    THEN Uppercase[CHOOSE i \in 1..26 : Lowercase[i] = c]
    ELSE c

char_lower(c) ==
    IF \E i \in 1..26 : Uppercase[i] = c
    THEN Lowercase[CHOOSE i \in 1..26 : Uppercase[i] = c]
    ELSE c

\* str.upper() and str.lower()
str_upper(s) == [i \in 1..Len(s) |-> char_upper(s[i])]
str_lower(s) == [i \in 1..Len(s) |-> char_lower(s[i])]

\* sub in s
str_in(sub, s) ==
    \E i \in 1..(Len(s) - Len(sub) + 1) : SubSeq(s, i, i + Len(sub) - 1) = sub

\* s.replace(c, '') for a one-character c
RECURSIVE str_replace(_, _)
str_replace(s, c) ==
    IF s = <<>> THEN <<>>
    ELSE IF Head(s) = c THEN str_replace(Tail(s), c)
    ELSE <<Head(s)>> \o str_replace(Tail(s), c)

digit_value(c) == (CHOOSE i \in 1..10 : DigitChars[i] = c) - 1

RECURSIVE digits_value(_, _)
digits_value(s, acc) ==
    IF s = <<>> THEN acc
    ELSE digits_value(Tail(s), acc * 10 + digit_value(Head(s)))

is_digits(s) == \A i \in 1..Len(s) : \E d \in 1..10 : DigitChars[d] = s[i]

\* float(s) on the decimal notations the tables hold: an optional minus
\* sign, then digits with at most one point.  The value is
\* Some(thousandths), and None stands for the ValueError float raises on
\* anything else.
py_float(s) ==
    LET negative == s # <<>> /\ s[1] = "-"
        u == IF negative THEN Tail(s) ELSE s
        points == {i \in 1..Len(u) : u[i] = "."}
        p == IF points = {} THEN Len(u) + 1 ELSE CHOOSE i \in points : TRUE
        int_part == SubSeq(u, 1, p - 1)
        frac_part == SubSeq(u, p + 1, Len(u))
        thousandths == SubSeq(frac_part \o <<"0", "0", "0">>, 1, 3)
        magnitude == digits_value(int_part, 0) * 1000 + digits_value(thousandths, 0)
    IN  IF Cardinality(points) > 1 THEN None
        ELSE IF ~is_digits(int_part) \/ ~is_digits(frac_part) THEN None
        ELSE IF int_part = <<>> /\ frac_part = <<>> THEN None
        ELSE Some(IF negative THEN 0 - magnitude ELSE magnitude)

\* re.search(r'[\d,\.]+', s): the first maximal run of digits, commas and
\* points, Some(run), or None when there is no match.
number_char(c) == c = "," \/ c = "." \/ \E d \in 1..10 : DigitChars[d] = c

re_search_number(s) ==
    LET starts == {i \in 1..Len(s) : number_char(s[i])}
    IN  IF starts = {} THEN None
        ELSE LET a == CHOOSE i \in starts : \A j \in starts : i <= j
                 ends == {j \in a..Len(s) : \A k \in a..j : number_char(s[k])}
                 b == CHOOSE j \in ends : \A k \in ends : k <= j
             IN  Some(SubSeq(s, a, b))

\* A value of a JSON object or a table cell: a string, a number (in
\* thousandths) or an absent key.
StrCell(s) == [t |-> "str", s |-> s, v |-> 0]
NumCell(v) == [t |-> "num", s |-> <<>>, v |-> v]
Missing == [t |-> "missing", s |-> <<>>, v |-> 0]

\* d.get(key, default) with a string default
dict_get(cell, default) == IF cell.t = "missing" THEN StrCell(default) ELSE cell

\* The texts of the model's tables.
s_BlackRock == <<"B", "l", "a", "c", "k", "R", "o", "c", "k">>
s_Black_Rock == <<"B", "l", "a", "c", "k", " ", "R", "o", "c", "k">>
s_Vanguard == <<"V", "a", "n", "g", "u", "a", "r", "d">>
s_Vanguard_BlackRock == <<"V", "a", "n", "g", "u", "a", "r", "d", " ", "B", "l", "a", "c", "k", "R", "o", "c", "k">>
s_State_St == <<"S", "t", "a", "t", "e", " ", "S", "t">>
s_BLACKROCK == <<"B", "L", "A", "C", "K", "R", "O", "C", "K">>
s_BLACK_ROCK == <<"B", "L", "A", "C", "K", " ", "R", "O", "C", "K">>
s_VANGUARD == <<"V", "A", "N", "G", "U", "A", "R", "D">>
s_blackrock == <<"b", "l", "a", "c", "k", "r", "o", "c", "k">>
s_vanguard == <<"v", "a", "n", "g", "u", "a", "r", "d">>
s_zero == <<"0">>
s_one == <<"1">>
s_NA == <<"N", "/", "A">>
s_40_000 == <<"4", "0", ",", "0", "0", "0">>
s_50_000 == <<"5", "0", ",", "0", "0", "0">>
s_4pct == <<"4", "%">>
s_5_5pct == <<"5", ".", "5", "%">>
s_1_500_000 == <<"1", ",", "5", "0", "0", ",", "0", "0", "0">>
s_150pct == <<"1", "5", "0", "%">>
s_minus_1pct == <<"-", "1", "%">>

HolderNames == {s_BlackRock, s_Black_Rock, s_Vanguard, s_Vanguard_BlackRock, s_State_St}

MaxRows == 2

\* Nasdaq rows: sharesHeld is a count with thousands separators (one of
\* them above the total the summary gives), a text that is no number, or a
\* JSON number instead of a string.
SharesCells ==
    {StrCell(s_40_000), StrCell(s_50_000), StrCell(s_1_500_000), StrCell(s_NA),
     NumCell(Dec(30000, 0))}
NasdaqRows == [ownerName : {StrCell(n) : n \in HolderNames}, sharesHeld : SharesCells]
NasdaqTables == UNION {[1..n -> NasdaqRows] : n \in 0..MaxRows}

\* ownershipSummary.ShareoutstandingTotal.value, in millions of shares.
TotalCells == {StrCell(s_one), StrCell(s_zero), StrCell(s_NA), Missing, NumCell(Dec(1, 0))}

\* Yahoo rows: the percentage column holds a text such as "5.5%" or a
\* number (pctHeld, a fraction).
PctCells == {StrCell(s_4pct), StrCell(s_5_5pct), StrCell(s_NA), NumCell(Dec(0, 30))}
YahooRows == [Holder : {StrCell(n) : n \in HolderNames}, pctHeld : PctCells]
YahooTables == UNION {[1..n -> YahooRows] : n \in 0..MaxRows}

\* Rows for scanner_pro's Yahoo parser, whose '% Out' column is the field
\* pctHeld here: as above, and a text above 100% and one below zero.
OutCells == PctCells \cup {StrCell(s_150pct), StrCell(s_minus_1pct)}
OutRows == [Holder : {StrCell(n) : n \in HolderNames}, pctHeld : OutCells]
OutTables == UNION {[1..n -> OutRows] : n \in 0..MaxRows}

----------------------------------------------------------------------------
(* The holder-table parsers, row by row *)

\* Quantities of shares: shares_held is in thousandths of a share like every
\* number, and total_shares (float(...) * 1000000) is carried in thousands
\* of shares, so that
\*     shares_held / total_shares * 100  =  shares_held \div (total_shares * 10)
\*     shares_held / total_shares        =  shares_held \div (total_shares * 1000)
\* in thousandths.

\* scanner_pro.parse_nasdaq_holdings, the loop over the holdings: acc is
\* <<blackrock_pct, vanguard_pct>>.  An exception leaves the loop for the
\* outer except, which falls through to the return of the figures so far.
RECURSIVE holdings_loop(_, _, _)
holdings_loop(holdings, total_shares, acc) ==
    IF holdings = <<>> THEN acc
    ELSE
    LET holding == Head(holdings)
        shares_held_str == dict_get(holding.sharesHeld, s_zero)
    IN  IF holding.ownerName.t = "missing"
        THEN holdings_loop(Tail(holdings), total_shares, acc)
        ELSE IF holding.ownerName.t # "str" \/ shares_held_str.t # "str"
        THEN acc
        ELSE
        LET owner_name == str_upper(holding.ownerName.s)
            shares_held == py_float(str_replace(shares_held_str.s, ","))
        IN  IF shares_held = None
            THEN holdings_loop(Tail(holdings), total_shares, acc)
            ELSE
            LET pct_held == IF total_shares > 0
                            THEN shares_held[1] \div (total_shares * 10)
                            ELSE 0
            IN  IF str_in(s_BLACKROCK, owner_name) \/ str_in(s_BLACK_ROCK, owner_name)
                THEN holdings_loop(Tail(holdings), total_shares,
                                   <<Max2(acc[1], pct_held), acc[2]>>)
                ELSE IF str_in(s_VANGUARD, owner_name)
                THEN holdings_loop(Tail(holdings), total_shares,
                                   <<acc[1], Max2(acc[2], pct_held)>>)
                ELSE holdings_loop(Tail(holdings), total_shares, acc)

\* scanner_pro.parse_nasdaq_holdings on a response that has a holdings
\* table: total is ShareoutstandingTotal's value (Missing when the summary
\* or the key is absent).  Returns <<blackrock_pct, vanguard_pct>>.
parse_nasdaq_holdings_rows(total, holdings) ==
    LET total_shares_str == dict_get(total, s_zero)
    IN  IF total_shares_str.t # "str" THEN <<0, 0>>
        ELSE
        LET total_match == re_search_number(str_replace(total_shares_str.s, ","))
        IN  IF total_match = None THEN holdings_loop(holdings, 0, <<0, 0>>)
            ELSE IF py_float(total_match[1]) = None THEN <<0, 0>>
            ELSE holdings_loop(holdings, py_float(total_match[1])[1], <<0, 0>>)

\* u2_dual.parse_nasdaq_holdings, the loop over the rows; None stands for
\* an exception raised in the loop.
RECURSIVE rows_loop(_, _, _)
rows_loop(rows, total_shares, acc) ==
    IF rows = <<>> THEN Some(acc)
    ELSE
    LET row == Head(rows)
        owner == dict_get(row.ownerName, <<>>)
        shares_held_str == dict_get(row.sharesHeld, s_zero)
    IN  IF owner.t # "str" \/ shares_held_str.t # "str" THEN None
        ELSE
        LET owner_name == str_lower(owner.s)
            shares_held == py_float(str_replace(shares_held_str.s, ","))
        IN  IF shares_held = None THEN None
            ELSE
            LET percentage == IF total_shares > 0
                              THEN shares_held[1] \div (total_shares * 1000)
                              ELSE 0
            IN  IF str_in(s_blackrock, owner_name) /\ percentage > acc[1]
                THEN rows_loop(Tail(rows), total_shares, <<percentage, acc[2]>>)
                ELSE IF str_in(s_vanguard, owner_name) /\ percentage > acc[2]
                THEN rows_loop(Tail(rows), total_shares, <<acc[1], percentage>>)
                ELSE rows_loop(Tail(rows), total_shares, acc)

\* A parser that takes the total for one million shares whatever its
\* value says.
parse_nasdaq_holdings_dual_rows_any_total(total, rows) ==
    IF rows = <<>> THEN <<0, 0>>
    ELSE LET figures == rows_loop(rows, Dec(1, 0), <<0, 0>>)
         IN  IF figures = None THEN <<0, 0>> ELSE figures[1]

\* u2_dual.parse_nasdaq_holdings on a response: the figures
\* <<blackrock_pct, vanguard_pct>> of the returned tuple (its two dates are
\* left out).  Any exception returns 0, 0.
parse_nasdaq_holdings_dual_rows(total, rows) ==
    IF rows = <<>> THEN <<0, 0>>
    ELSE
    LET total_shares_str == dict_get(total, s_zero)
    IN  IF total_shares_str.t # "str" THEN <<0, 0>>
        ELSE
        LET total_shares == py_float(str_replace(total_shares_str.s, ","))
        IN  IF total_shares = None THEN <<0, 0>>
            ELSE LET figures == rows_loop(rows, total_shares[1], <<0, 0>>)
                 IN  IF figures = None THEN <<0, 0>> ELSE figures[1]

\* An iterrows loop that takes a percent text at its face value.
RECURSIVE iterrows_loop_face_value(_, _)
iterrows_loop_face_value(rows, acc) ==
    IF rows = <<>> THEN Some(acc)
    ELSE
    LET row == Head(rows)
        holder_name == str_lower(row.Holder.s)
        holding_pct == IF row.pctHeld.t = "str"
                       THEN py_float(str_replace(str_replace(row.pctHeld.s, "%"), ","))
                       ELSE Some(row.pctHeld.v)
    IN  IF holding_pct = None THEN None
        ELSE IF str_in(s_blackrock, holder_name) /\ holding_pct[1] > acc[1]
        THEN iterrows_loop_face_value(Tail(rows), <<holding_pct[1], acc[2]>>)
        ELSE IF str_in(s_vanguard, holder_name) /\ holding_pct[1] > acc[2]
        THEN iterrows_loop_face_value(Tail(rows), <<acc[1], holding_pct[1]>>)
        ELSE iterrows_loop_face_value(Tail(rows), acc)

\* The loop over holders_df.iterrows() of u2.parse_institutional_holdings
\* and of u2_dual.parse_yahoo_institutional_holdings; None stands for an
\* exception raised in the loop.
RECURSIVE iterrows_loop(_, _)
iterrows_loop(rows, acc) ==
    IF rows = <<>> THEN Some(acc)
    ELSE
    LET row == Head(rows)
        holder_name == str_lower(row.Holder.s)
        holding_pct == IF row.pctHeld.t = "str"
                       THEN LET f == py_float(str_replace(str_replace(row.pctHeld.s, "%"), ","))
                            IN  IF f = None THEN None ELSE Some(f[1] \div 100)
                       ELSE Some(row.pctHeld.v)
    IN  IF holding_pct = None THEN None
        ELSE IF str_in(s_blackrock, holder_name) /\ holding_pct[1] > acc[1]
        THEN iterrows_loop(Tail(rows), <<holding_pct[1], acc[2]>>)
        ELSE IF str_in(s_vanguard, holder_name) /\ holding_pct[1] > acc[2]
        THEN iterrows_loop(Tail(rows), <<acc[1], holding_pct[1]>>)
        ELSE iterrows_loop(Tail(rows), acc)

\* u2.parse_institutional_holdings on a frame that has a percentage column.
parse_institutional_holdings_rows(rows) ==
    IF rows = <<>> THEN <<0, 0>>
    ELSE LET figures == iterrows_loop(rows, <<0, 0>>)
         IN  IF figures = None THEN <<0, 0>> ELSE figures[1]

\* u2_dual.parse_yahoo_institutional_holdings, likewise (dates left out).
parse_yahoo_institutional_holdings_rows(rows) ==
    IF rows = <<>> THEN <<0, 0>>
    ELSE LET figures == iterrows_loop(rows, <<0, 0>>)
         IN  IF figures = None THEN <<0, 0>> ELSE figures[1]

\* A loop over the values that keeps the latest float, not the greatest.
RECURSIVE pcts_loop_latest(_, _)
pcts_loop_latest(pcts, acc) ==
    IF pcts = <<>> THEN acc
    ELSE
    LET cell == Head(pcts).pctHeld
        pct == IF cell.t = "str"
               THEN py_float(str_replace(str_replace(cell.s, "%"), ","))
               ELSE Some(cell.v)
    IN  IF pct = None THEN pcts_loop_latest(Tail(pcts), acc)
        ELSE pcts_loop_latest(Tail(pcts), pct[1])

\* scanner_pro.parse_yahoo_holdings, the loop over the '% Out' values of the
\* rows a mask selects: astype(str), '%' and ',' removed, float, and the
\* greatest kept; a value float rejects is passed over.  A number comes out
\* of str and float as the number it was.
RECURSIVE pcts_loop(_, _)
pcts_loop(pcts, acc) ==
    IF pcts = <<>> THEN acc
    ELSE
    LET cell == Head(pcts).pctHeld
        pct == IF cell.t = "str"
               THEN py_float(str_replace(str_replace(cell.s, "%"), ","))
               ELSE Some(cell.v)
    IN  IF pct = None THEN pcts_loop(Tail(pcts), acc)
        ELSE pcts_loop(Tail(pcts), Max2(acc, pct[1]))

\* scanner_pro.parse_yahoo_holdings on a frame with the columns Holder and
\* '% Out'.  Returns <<blackrock_pct, vanguard_pct>>.
parse_yahoo_holdings_rows(rows) ==
    IF rows = <<>> THEN <<0, 0>>
    ELSE
    LET br_rows == SelectSeq(rows, LAMBDA r :
                       \/ str_in(s_BLACKROCK, str_upper(r.Holder.s))
                       \/ str_in(s_BLACK_ROCK, str_upper(r.Holder.s)))
        vg_rows == SelectSeq(rows, LAMBDA r : str_in(s_VANGUARD, str_upper(r.Holder.s)))
    IN  <<pcts_loop(br_rows, 0), pcts_loop(vg_rows, 0)>>

\* The parsers by name, for the claims that quantify over them.
NasdaqParsers == {"scanner_pro.parse_nasdaq_holdings", "u2_dual.parse_nasdaq_holdings"}
YahooParsers == {"u2.parse_institutional_holdings", "u2_dual.parse_yahoo_institutional_holdings"}

parse_rows(fn, total, rows) ==
    CASE fn = "scanner_pro.parse_nasdaq_holdings" -> parse_nasdaq_holdings_rows(total, rows)
      [] fn = "u2_dual.parse_nasdaq_holdings" -> parse_nasdaq_holdings_dual_rows(total, rows)
      [] fn = "u2.parse_institutional_holdings" -> parse_institutional_holdings_rows(rows)
      [] fn = "u2_dual.parse_yahoo_institutional_holdings" -> parse_yahoo_institutional_holdings_rows(rows)
      [] fn = "scanner_pro.parse_yahoo_holdings" -> parse_yahoo_holdings_rows(rows)

\* SpecParse: one call of a holder-table parser on any table.
InitParse ==
    /\ requireBoth = FALSE
    /\ numTickers = 1
    /\ idx = 0
    /\ results = <<>>
    /\ pc = "parse"
    /\ last = NoCall
    /\ ScanIdle

CallParseNasdaq ==
    /\ pc = "parse"
    /\ \E fn \in NasdaqParsers, total \in TotalCells, rows \in NasdaqTables :
          last' = [fn |-> fn, total |-> total, rows |-> rows,
                   ret |-> parse_rows(fn, total, rows)]
    /\ pc' = "parsed"
    /\ UNCHANGED <<requireBoth, numTickers, idx, results, scanVars>>

CallParseYahoo ==
    /\ pc = "parse"
    /\ \E fn \in YahooParsers, rows \in YahooTables :
          last' = [fn |-> fn, total |-> Missing, rows |-> rows,
                   ret |-> parse_rows(fn, Missing, rows)]
    /\ pc' = "parsed"
    /\ UNCHANGED <<requireBoth, numTickers, idx, results, scanVars>>

CallParseYahooHoldings ==
    /\ pc = "parse"
    /\ \E rows \in OutTables :
          last' = [fn |-> "scanner_pro.parse_yahoo_holdings", total |-> Missing,
                   rows |-> rows,
                   ret |-> parse_rows("scanner_pro.parse_yahoo_holdings", Missing, rows)]
    /\ pc' = "parsed"
    /\ UNCHANGED <<requireBoth, numTickers, idx, results, scanVars>>

NextParse == CallParseNasdaq \/ CallParseYahoo \/ CallParseYahooHoldings

SpecParse == InitParse /\ [][NextParse]_vars

----------------------------------------------------------------------------
(* scanner_pro_enhanced.py: main across runs, with the processed-stocks file *)

TickerNames == {"AAA", "BBB", "CCC"}

MaxListLen == 2
MaxRuns == 2

\* What load_tickers can return: any list of symbols, [] for no file.
TickerLists == UNION {[1..n -> TickerNames] : n \in 0..MaxListLen}

\* What stock.info does: raise, or hand back a dict whose currentPrice is
\* absent, 0.50, 1.50 or 2.00.
Infos ==
    {[raises |-> TRUE, price |-> None]}
        \cup {[raises |-> FALSE, price |-> p] :
                p \in {None, Some(Dec(0, 500)), Some(Dec(1, 500)), Some(Dec(2, 0))}}

\* What get_nasdaq_data hands back, by the figures it parses to.
ScanTables ==
    {None, Some([br |-> Dec(5, 0), vg |-> Dec(5, 0)]), Some([br |-> Dec(4, 0), vg |-> 0]),
     Some([br |-> Dec(4, 0), vg |-> Dec(3, 0)])}

\* An analyze_ticker that lets the exception of stock.info out.
analyze_ticker_uncaught(ticker, info, nasdaq_data) ==
    IF info.raises THEN [raised |-> TRUE, ret |-> None]
    ELSE [raised |-> FALSE, ret |-> analyze_ticker(ticker, info.price, nasdaq_data)]

\* scanner_pro_enhanced.analyze_ticker: the body of scanner_pro's inside
\* try / except Exception: return None.  raised tells whether an exception
\* leaves the call.
analyze_ticker_enhanced(ticker, info, nasdaq_data) ==
    IF info.raises THEN [raised |-> FALSE, ret |-> None]
    ELSE [raised |-> FALSE, ret |-> analyze_ticker(ticker, info.price, nasdaq_data)]

\* A selection that always scans the whole list.
select_tickers_full(loaded, processed) ==
    LET new_tickers == SelectSeq(loaded, LAMBDA t : t \notin processed)
    IN  [new_stocks_only |-> Cardinality(processed) > 0 /\ Len(new_tickers) < Len(loaded),
         tickers_to_scan |-> loaded]

\* A selection whose flag only asks whether anything was processed before.
select_tickers_any_state(loaded, processed) ==
    LET new_tickers == SelectSeq(loaded, LAMBDA t : t \notin processed)
    IN  [new_stocks_only |-> Cardinality(processed) > 0,
         tickers_to_scan |-> IF Cardinality(processed) > 0 THEN new_tickers ELSE loaded]

\* A selection that falls back to the whole list when nothing is new.
select_tickers_never_empty(loaded, processed) ==
    LET new_tickers == SelectSeq(loaded, LAMBDA t : t \notin processed)
        flag == Cardinality(processed) > 0 /\ Len(new_tickers) < Len(loaded)
    IN  [new_stocks_only |-> flag,
         tickers_to_scan |-> IF flag /\ new_tickers # <<>> THEN new_tickers ELSE loaded]

\* main: new_tickers, new_stocks_only and tickers_to_scan.
select_tickers(loaded, processed) ==
    LET new_tickers == SelectSeq(loaded, LAMBDA t : t \notin processed)
        flag == Cardinality(processed) > 0 /\ Len(new_tickers) < Len(loaded)
    IN  [new_stocks_only |-> flag,
         tickers_to_scan |-> IF flag THEN new_tickers ELSE loaded]

\* A summary whose premium count takes every stock under a dollar.
save_results_to_json_premium_by_price(qualifying_stocks, total_processed, flag) ==
    LET count(stocks, P(_)) == Cardinality({k \in 1..Len(stocks) : P(stocks[k])})
        high(s) == s.rank_category = 1
        medium(s) == s.rank_category = 2
        low(s) == s.rank_category = 3
        under(s) == s.price < Dec(1, 0)
    IN  CHOOSE written \in
            {[stocks |-> stocks,
              summary |-> [total_processed |-> total_processed,
                           qualifying_count |-> Len(stocks),
                           high_tier |-> count(stocks, high),
                           medium_tier |-> count(stocks, medium),
                           low_tier |-> count(stocks, low),
                           under_dollar |-> count(stocks, under),
                           premium_count |-> count(stocks, under)],
              new_stocks_only |-> flag] :
                stocks \in {rank_and_sort(qualifying_stocks)}} : TRUE

\* save_results_to_json: what it writes to RESULTS_FILE (timestamp left out).
save_results_to_json(qualifying_stocks, total_processed, flag) ==
    LET count(stocks, P(_)) == Cardinality({k \in 1..Len(stocks) : P(stocks[k])})
        high(s) == s.rank_category = 1
        medium(s) == s.rank_category = 2
        low(s) == s.rank_category = 3
        under(s) == s.price < Dec(1, 0)
        premium(s) == /\ s.rank_category = 1
                      /\ s.blackrock_pct >= Dec(5, 0)
                      /\ s.vanguard_pct >= Dec(5, 0)
                      /\ s.price < Dec(1, 0)
    IN  CHOOSE written \in
            {[stocks |-> stocks,
              summary |-> [total_processed |-> total_processed,
                           qualifying_count |-> Len(stocks),
                           high_tier |-> count(stocks, high),
                           medium_tier |-> count(stocks, medium),
                           low_tier |-> count(stocks, low),
                           under_dollar |-> count(stocks, under),
                           premium_count |-> count(stocks, premium)],
              new_stocks_only |-> flag] :
                stocks \in {rank_and_sort(qualifying_stocks)}} : TRUE

seq_set(s) == {s[k] : k \in 1..Len(s)}

\* A union that forgets what was processed before the run.
all_processed_tickers_of_run(processed, scanned) == seq_set(scanned)

\* main: all_processed_tickers = processed_stocks | set(tickers_to_scan)
all_processed_tickers(processed, scanned) == processed \cup seq_set(scanned)

InitScan ==
    /\ requireBoth = FALSE
    /\ numTickers = 0
    /\ idx = 0
    /\ results = <<>>
    /\ pc = "idle"
    /\ last = NoCall
    /\ ScanIdle

\* main up to the loop: load the tickers and the processed stocks, select
\* what to scan; return at once for no tickers, and after writing an empty
\* result for nothing to scan.
StartRun ==
    /\ pc \in {"idle", "no_tickers", "done", "aborted", "crashed"}
    /\ runs < MaxRuns
    /\ runs' = runs + 1
    /\ \E loaded \in TickerLists :
          LET selected == select_tickers(loaded, persisted)
          IN  /\ tickers' = loaded
              /\ numTickers' = Len(loaded)
              /\ IF loaded = <<>>
                 THEN /\ pc' = "no_tickers"
                      /\ processed_stocks' = {}
                      /\ new_stocks_only' = FALSE
                      /\ tickers_to_scan' = <<>>
                      /\ output' = None
                 ELSE /\ processed_stocks' = persisted
                      /\ new_stocks_only' = selected.new_stocks_only
                      /\ tickers_to_scan' = selected.tickers_to_scan
                      /\ IF selected.tickers_to_scan = <<>>
                         THEN /\ output' = Some(save_results_to_json(<<>>, Len(loaded), TRUE))
                              /\ pc' = "done"
                         ELSE /\ output' = None
                              /\ pc' = "scan"
    /\ results' = <<>>
    /\ idx' = 0
    /\ analysed' = <<>>
    /\ UNCHANGED <<requireBoth, last, persisted, everAnalysed>>

\* The loop takes the next ticker and calls analyze_ticker: the ticker
\* tickers_to_scan[idx + 1] is in flight.
BeginAnalyze ==
    /\ pc = "scan"
    /\ idx < Len(tickers_to_scan)
    /\ pc' = "analyzing"
    /\ UNCHANGED <<requireBoth, numTickers, idx, results, last, scanVars>>

\* analyze_ticker returns (or lets an exception out); the loop appends a
\* result and sleeps.
EndAnalyze ==
    /\ pc = "analyzing"
    /\ \E info \in Infos, nasdaq_data \in ScanTables :
          LET ticker == tickers_to_scan[idx + 1]
              frame == analyze_ticker_enhanced(ticker, info, nasdaq_data)
              result == frame.ret
          IN  IF frame.raised
              THEN /\ pc' = "crashed"
                   /\ UNCHANGED <<idx, results, analysed, everAnalysed>>
              ELSE /\ pc' = "scan"
                   /\ idx' = idx + 1
                   /\ results' = IF result # None THEN Append(results, result[1]) ELSE results
                   /\ analysed' = Append(analysed,
                                         [ticker |-> ticker,
                                          outcome |-> IF info.raises THEN "error"
                                                      ELSE IF result = None THEN "none"
                                                      ELSE "ok"])
                   /\ everAnalysed' = everAnalysed \cup {ticker}
    /\ UNCHANGED <<requireBoth, numTickers, last, persisted, runs, tickers,
                   processed_stocks, tickers_to_scan, new_stocks_only, output>>

\* After the loop: save the processed stocks, save the results, display
\* them (both rank and sort the list in place).
FinishRun ==
    /\ pc = "scan"
    /\ idx = Len(tickers_to_scan)
    /\ persisted' = all_processed_tickers(processed_stocks, tickers_to_scan)
    /\ \E written \in {save_results_to_json(results, Len(tickers), new_stocks_only)},
          shown \in {IF results = <<>> THEN results ELSE rank_and_sort(results)} :
          /\ output' = Some(written)
          /\ results' = shown
    /\ pc' = "done"
    /\ UNCHANGED <<requireBoth, numTickers, idx, last, runs, tickers, processed_stocks,
                   tickers_to_scan, new_stocks_only, analysed, everAnalysed>>

\* An interruption that saves the whole selection on its way out.
Abort_saving ==
    /\ pc \in {"scan", "analyzing"}
    /\ pc' = "aborted"
    /\ persisted' = all_processed_tickers(processed_stocks, tickers_to_scan)
    /\ UNCHANGED <<requireBoth, numTickers, idx, results, last, runs, tickers,
                   processed_stocks, tickers_to_scan, new_stocks_only, output,
                   analysed, everAnalysed>>

\* The process is interrupted or killed in the loop: nothing is saved.
Abort ==
    /\ pc \in {"scan", "analyzing"}
    /\ pc' = "aborted"
    /\ UNCHANGED <<requireBoth, numTickers, idx, results, last, scanVars>>

NextScan == StartRun \/ BeginAnalyze \/ EndAnalyze \/ FinishRun \/ Abort

\* SpecScan: any sequence of runs, each of which may be interrupted.
SpecScan == InitScan /\ [][NextScan]_vars

NextRun == StartRun \/ BeginAnalyze \/ EndAnalyze \/ FinishRun

\* SpecRun: runs that are left to execute: the loop and what follows it
\* keep taking steps.
SpecRun ==
    /\ InitScan
    /\ [][NextRun]_vars
    /\ WF_vars(BeginAnalyze)
    /\ WF_vars(EndAnalyze)
    /\ WF_vars(FinishRun)

----------------------------------------------------------------------------
(* Claims about the holder-table parsers (SpecParse) *)

Parsed == pc = "parsed"

\* The category the holder classification rule gives a name: 1 is
\* BLACKROCK, 2 is VANGUARD, 0 is OTHER.
claimed_category(name) ==
    IF str_in(s_BLACKROCK, str_upper(name)) \/ str_in(s_BLACK_ROCK, str_upper(name)) THEN 1
    ELSE IF str_in(s_VANGUARD, str_upper(name)) THEN 2
    ELSE 0

row_name(fn, row) == IF fn \in NasdaqParsers THEN row.ownerName.s ELSE row.Holder.s

\* The numeric field of a row, Some(thousandths), or None when it is no
\* number: a text that does not parse, or a value of the wrong type.
row_number(fn, row) ==
    IF fn \in NasdaqParsers
    THEN IF row.sharesHeld.t = "str"
         THEN py_float(str_replace(row.sharesHeld.s, ","))
         ELSE None
    ELSE IF row.pctHeld.t = "str"
         THEN py_float(str_replace(str_replace(row.pctHeld.s, "%"), ","))
         ELSE Some(row.pctHeld.v)

malformed(fn, row) == row_number(fn, row) = None

\* The total of shares outstanding, Some(thousandths of a million), or None
\* when it is missing or no number.
total_number(total) == IF total.t = "str" THEN py_float(total.s) ELSE None

total_usable(fn, total) ==
    fn \in NasdaqParsers => (total_number(total) # None /\ total_number(total) # Some(0))

\* The percentage of a well-formed row on the scale of its parser:
\* scanner_pro works in percent, u2 and u2_dual in fractions of one.
row_pct(fn, total, row) ==
    IF fn = "scanner_pro.parse_nasdaq_holdings"
    THEN row_number(fn, row)[1] \div (total_number(total)[1] * 10)
    ELSE IF fn = "u2_dual.parse_nasdaq_holdings"
    THEN row_number(fn, row)[1] \div (total_number(total)[1] * 1000)
    ELSE IF fn = "scanner_pro.parse_yahoo_holdings"
    THEN row_number(fn, row)[1]
    ELSE IF row.pctHeld.t = "str" THEN row_number(fn, row)[1] \div 100
    ELSE row_number(fn, row)[1]

rows_of(fn, rows, cat) == {i \in 1..Len(rows) : claimed_category(row_name(fn, rows[i])) = cat}

well_formed_call ==
    /\ Parsed
    /\ total_usable(last.fn, last.total)
    /\ \A i \in 1..Len(last.rows) : ~malformed(last.fn, last.rows[i])

\* C11: in every parser a row is credited to the one category its name
\* selects (BLACKROCK for "BLACKROCK" or "BLACK ROCK" in any case, else
\* VANGUARD for "VANGUARD", else none): a returned figure is the percentage
\* of a row of its own category or zero, and a lone row is credited to its
\* category.
C11_Classification ==
    well_formed_call =>
        /\ \A cat \in {1, 2} :
              \/ last.ret[cat] = 0
              \/ \E i \in rows_of(last.fn, last.rows, cat) :
                    last.ret[cat] = row_pct(last.fn, last.total, last.rows[i])
        /\ \A cat \in {1, 2} :
              (Len(last.rows) = 1 /\ rows_of(last.fn, last.rows, cat) = {1})
                  => last.ret[cat] = row_pct(last.fn, last.total, last.rows[1])

remove_row(rows, i) == SubSeq(rows, 1, i - 1) \o SubSeq(rows, i + 1, Len(rows))

\* C12: a malformed row never aborts parsing: the figures returned for a
\* table with a row whose numeric field is unparseable or wrongly typed are
\* the figures of the same table without that row, wherever the row sits.
C12_MalformedRowSkipped ==
    Parsed =>
        \A i \in 1..Len(last.rows) :
            malformed(last.fn, last.rows[i])
                => last.ret = parse_rows(last.fn, last.total, remove_row(last.rows, i))

\* Names on which every parser's keyword test agrees with the rule: exactly
\* one of the two keywords, written without a space.
plain_name(name) ==
    str_in(s_blackrock, str_lower(name)) # str_in(s_vanguard, str_lower(name))

\* 100 * sharesHeld / totalSharesOutstanding, in thousandths.
claimed_pct(total, row) ==
    row_number("scanner_pro.parse_nasdaq_holdings", row)[1] \div (total_number(total)[1] * 10)

shares_call == Parsed /\ last.fn \in NasdaqParsers

lone_plain_row ==
    /\ Len(last.rows) = 1
    /\ ~malformed(last.fn, last.rows[1])
    /\ plain_name(row_name(last.fn, last.rows[1]))

\* C13 as stated: from absolute shares every parser computes a row's
\* percentage as 100 * sharesHeld / totalSharesOutstanding, and returns 0
\* for both categories when the total is zero, missing or unparseable.
C13_SharesAsClaimed ==
    shares_call =>
        /\ ~total_usable(last.fn, last.total) => last.ret = <<0, 0>>
        /\ (total_usable(last.fn, last.total) /\ lone_plain_row)
              => last.ret[claimed_category(row_name(last.fn, last.rows[1]))]
                    = claimed_pct(last.total, last.rows[1])

\* C13 amended: a row's figure is sharesHeld / totalSharesOutstanding, in
\* percent (times 100) in scanner_pro and as a fraction of one in u2_dual;
\* with a total that is zero, missing or unparseable the parser returns 0
\* for both categories (and returns, it does not raise).
C13_SharesAmended ==
    shares_call =>
        /\ ~total_usable(last.fn, last.total) => last.ret = <<0, 0>>
        /\ (total_usable(last.fn, last.total) /\ lone_plain_row)
              => last.ret[claimed_category(row_name(last.fn, last.rows[1]))]
                    = row_pct(last.fn, last.total, last.rows[1])
        /\ (total_usable(last.fn, last.total) /\ lone_plain_row)
              => row_pct(last.fn, last.total, last.rows[1])
                    = IF last.fn = "scanner_pro.parse_nasdaq_holdings"
                      THEN claimed_pct(last.total, last.rows[1])
                      ELSE claimed_pct(last.total, last.rows[1]) \div 100

\* A table with a well-formed BlackRock or Vanguard row parsed by u2_dual
\* against a total that is no number.
C13_Witness ==
    /\ shares_call
    /\ last.fn = "u2_dual.parse_nasdaq_holdings"
    /\ last.total = StrCell(s_NA)
    /\ \E i \in 1..Len(last.rows) :
          /\ ~malformed(last.fn, last.rows[i])
          /\ plain_name(row_name(last.fn, last.rows[i]))
    /\ \A i \in 1..Len(last.rows) : ~malformed(last.fn, last.rows[i])

\* The greatest of a set of numbers, 0 for the empty set.
greatest(S) == IF S = {} THEN 0 ELSE CHOOSE x \in S : \A y \in S : y <= x

\* The rows of the call's table with the total usable, so that every
\* well-formed row has a percentage.
pcts_of(cat) ==
    {row_pct(last.fn, last.total, last.rows[i]) :
        i \in {j \in rows_of(last.fn, last.rows, cat) : ~malformed(last.fn, last.rows[j])}}

swap_rows(rows) == [i \in 1..Len(rows) |-> rows[Len(rows) + 1 - i]]

\* C14: when several rows of a table fall in the same tracked category, the
\* figure returned for the category is the greatest percentage over those
\* rows, whatever the order of the rows.
C14_MaxOverRows ==
    (Parsed /\ total_usable(last.fn, last.total)) =>
        \A cat \in {1, 2} :
            Cardinality(rows_of(last.fn, last.rows, cat)) >= 2
                => /\ last.ret[cat] = greatest(pcts_of(cat))
                   /\ parse_rows(last.fn, last.total, swap_rows(last.rows))[cat] = last.ret[cat]

----------------------------------------------------------------------------
(* Claims about the runs of scanner_pro_enhanced (SpecScan, SpecRun) *)

analysed_tickers == {analysed[k].ticker : k \in 1..Len(analysed)}

InLoop == pc \in {"scan", "analyzing"}

\* C15: a run never analyses a ticker that was in the processed stocks when
\* the run started: what the run loads is the file's set, and every ticker
\* analysed or in flight is outside it.
C15_NeverRescans ==
    /\ InLoop => processed_stocks = persisted
    /\ analysed_tickers \cap processed_stocks = {}
    /\ pc = "analyzing" => tickers_to_scan[idx + 1] \notin processed_stocks

\* A later run over a list that names a processed ticker has analysed a
\* new one.
C15_Witness ==
    /\ runs = 2
    /\ processed_stocks # {}
    /\ seq_set(tickers) \cap processed_stocks # {}
    /\ analysed # <<>>

full_scan_case == processed_stocks = {} \/ seq_set(tickers) \cap processed_stocks = {}

\* C17: a run scans the whole list when the previous state is empty or
\* holds none of the listed tickers, and only the listed tickers outside the
\* state otherwise; new_stocks_only, in main and in the output, is true
\* exactly in the second case.
C17_ScanSelection ==
    (pc \in {"scan", "analyzing", "done", "aborted"}) =>
        /\ full_scan_case => (tickers_to_scan = tickers /\ ~new_stocks_only)
        /\ ~full_scan_case =>
              /\ tickers_to_scan = SelectSeq(tickers, LAMBDA t : t \notin processed_stocks)
              /\ new_stocks_only
        /\ pc = "done" =>
              /\ output # None
              /\ output[1].new_stocks_only = ~full_scan_case

\* A completed incremental run: the state held one of the listed tickers,
\* the other was scanned, and the output is flagged.
C17_Witness ==
    /\ pc = "done"
    /\ ~full_scan_case
    /\ analysed # <<>>
    /\ Len(tickers_to_scan) < Len(tickers)
    /\ output[1].new_stocks_only

\* C18: when a run is interrupted in its loop, the saved state is the state
\* the run loaded: it holds only tickers whose analysis returned (in an
\* earlier run), and neither the ticker in flight nor a ticker not yet
\* reached.
C18_AbortKeepsState ==
    /\ persisted \subseteq everAnalysed
    /\ pc = "aborted" =>
          /\ persisted = processed_stocks
          /\ \A k \in (Len(analysed) + 1)..Len(tickers_to_scan) :
                tickers_to_scan[k] \notin persisted

\* A second run interrupted with one ticker analysed and one left.
C18_Witness ==
    /\ pc = "aborted"
    /\ processed_stocks # {}
    /\ Len(analysed) = 1
    /\ Len(tickers_to_scan) = 2

\* C19: a failure in the analysis of one ticker never stops the batch: the
\* selected tickers are analysed in list order, a run in its loop reaches
\* the end of main, and there every selected ticker has been analysed and
\* the results are written and ranked.
C19_BatchCompletes ==
    /\ [](\A k \in 1..Len(analysed) : analysed[k].ticker = tickers_to_scan[k])
    /\ [](pc = "done" =>
            /\ Len(analysed) = Len(tickers_to_scan)
            /\ output # None
            /\ results = rank_and_sort(results))
    /\ [](pc # "crashed")
    /\ (InLoop ~> pc = "done")

\* A run completed although stock.info raised for its first ticker, with
\* the second ticker analysed after it and qualifying.
C19_Witness ==
    /\ pc = "done"
    /\ Len(analysed) = 2
    /\ analysed[1].outcome = "error"
    /\ analysed[2].outcome = "ok"
    /\ Len(results) = 1

----------------------------------------------------------------------------
(* Claims about an unavailable source (SpecTicker) *)

\* A source's own figures pass the criteria of the dual scanner.
qualifies_alone(source) ==
    IF requireBoth
    THEN reported(source, "br") >= Dec(0, 40) /\ reported(source, "vg") >= Dec(0, 40)
    ELSE reported(source, "br") >= Dec(0, 40) \/ reported(source, "vg") >= Dec(0, 40)

zero_records == Some([br |-> 0, vg |-> 0])

dual_call_under_ceiling ==
    /\ Returned
    /\ last.fn = "u2_dual.process_ticker"
    /\ last.price # None
    /\ last.price[1] < Dec(2, 0)

carries(source) ==
    /\ last.ret # None
    /\ last.ret[1].blackrock_pct = reported(source, "br")
    /\ last.ret[1].vanguard_pct = reported(source, "vg")

\* C20: an unavailable source counts as a source with zero records: the
\* call returns what it returns for an empty report, and in the dual
\* scanner a ticker whose other source alone passes the criteria qualifies
\* with that source's figures, whichever of the two is unavailable.
C20_UnavailableSourceIsZero ==
    /\ (dual_call_under_ceiling /\ last.yahoo = None /\ qualifies_alone(last.nasdaq))
          => carries(last.nasdaq)
    /\ (dual_call_under_ceiling /\ last.nasdaq = None /\ qualifies_alone(last.yahoo))
          => carries(last.yahoo)
    /\ (Returned /\ last.fn = "u2_dual.process_ticker" /\ last.yahoo = None)
          => last.ret = process_ticker_dual(1, last.show_details, last.price,
                                            zero_records, last.nasdaq).ret
    /\ (Returned /\ last.fn = "u2_dual.process_ticker" /\ last.nasdaq = None)
          => last.ret = process_ticker_dual(1, last.show_details, last.price,
                                            last.yahoo, zero_records).ret
    /\ (Returned /\ last.fn = "u2.process_ticker" /\ last.yahoo = None)
          => last.ret = process_ticker_u2(1, last.price, zero_records)
    /\ (Returned /\ last.fn = "analyze_ticker" /\ last.nasdaq = None)
          => last.ret = analyze_ticker(1, last.price, zero_records)

\* Yahoo unavailable, Nasdaq reporting 5.5% for BlackRock: the ticker
\* qualifies with Nasdaq's figures.
C20_Witness ==
    /\ dual_call_under_ceiling
    /\ last.yahoo = None
    /\ reported(last.nasdaq, "br") = Dec(0, 55)
    /\ qualifies_alone(last.nasdaq)
    /\ carries(last.nasdaq)

----------------------------------------------------------------------------
(* Claims about the premium list (Spec) *)

claimed_premium(s) ==
    /\ s.rank_category = 1
    /\ s.blackrock_pct >= Dec(5, 0)
    /\ s.vanguard_pct >= Dec(5, 0)
    /\ s.price < Dec(1, 0)

\* C21: a ranked security is in the premium list iff it is tier 1, both its
\* percentages are >= 5.0 and its price is < 1.0; and the list that comes
\* out with the premium list computed is the ranked list itself: every tier
\* and the order are those the ranking alone gives.
C21_Premium ==
    pc = "done" =>
        /\ \A k \in 1..Len(results) :
              (\E j \in 1..Len(last.premium_stocks) : last.premium_stocks[j] = results[k])
                  <=> claimed_premium(results[k])
        /\ \A j \in 1..Len(last.premium_stocks) :
              \E k \in 1..Len(results) : results[k] = last.premium_stocks[j]
        /\ last.stocks = results
        /\ results = rank_and_sort(results)
        /\ \A k \in 1..Len(results) : results[k].rank_category = claimed_tier(results[k])

\* A ranked output with a premium security and, in tier 1 too, a security
\* with both holders at 5% that costs a dollar or more.
C21_Witness ==
    /\ Ranked
    /\ Len(last.premium_stocks) = 1
    /\ \E k \in 1..Len(results) :
          /\ results[k].rank_category = 1
          /\ results[k].blackrock_pct >= Dec(5, 0)
          /\ results[k].vanguard_pct >= Dec(5, 0)
          /\ results[k].price >= Dec(1, 0)

----------------------------------------------------------------------------
(* Claims about the scale and the range of the percentages (SpecParse) *)

\* The scanner a parser belongs to.
variant_of(fn) ==
    IF fn \in {"scanner_pro.parse_nasdaq_holdings", "scanner_pro.parse_yahoo_holdings"}
    THEN "scanner_pro"
    ELSE IF fn = "u2.parse_institutional_holdings" THEN "u2"
    ELSE "u2_dual"

\* What one unit of a scanner's scale is worth in units of the 0-100
\* scale's hundredth: 1 for percent, 100 for fractions of one.
scale_of(fn) == IF variant_of(fn) = "scanner_pro" THEN 1 ELSE 100

\* The figure of a row on the 0-100 scale: 100 * shares / total for a
\* shares row, the number written before the percent sign for a text.
percent_figure(fn, total, row) ==
    IF fn \in NasdaqParsers THEN claimed_pct(total, row) ELSE row_number(fn, row)[1]

\* A call on a table of one well-formed row of one tracked holder whose
\* figure is a count of shares or a percent text that is not negative.
scale_call ==
    /\ Parsed
    /\ lone_plain_row
    /\ total_usable(last.fn, last.total)
    /\ last.fn \notin NasdaqParsers => last.rows[1].pctHeld.t = "str"
    /\ row_number(last.fn, last.rows[1])[1] >= 0

number_call ==
    /\ Parsed
    /\ lone_plain_row
    /\ last.fn \notin NasdaqParsers
    /\ last.rows[1].pctHeld.t = "num"
    /\ last.rows[1].pctHeld.v >= 0

lone_category == claimed_category(row_name(last.fn, last.rows[1]))

\* C22 as stated: every parser returns its figures on the 0-100 scale, none
\* a fraction of one, and the threshold they are compared with is 4.0 on
\* that scale.
C22_SingleScale ==
    scale_call =>
        /\ last.ret[lone_category] = percent_figure(last.fn, last.total, last.rows[1])
        /\ HOLD_THRESHOLD(variant_of(last.fn)) = Dec(4, 0)

\* C22 amended: each scanner keeps to the scale of its own threshold:
\* percent with 4.0 in scanner_pro, fractions of one with 0.04 in u2 and
\* u2_dual.  A percent text gives the figure written on that scale, a number
\* is returned as it is, and so a text and the number that is its figure on
\* the parser's scale ("4%" and 0.04 in u2) give the same return.
C22_ScalePerScanner ==
    /\ scale_call =>
          /\ last.ret[lone_category]
                = percent_figure(last.fn, last.total, last.rows[1]) \div scale_of(last.fn)
          /\ HOLD_THRESHOLD(variant_of(last.fn)) = Dec(4, 0) \div scale_of(last.fn)
    /\ number_call => last.ret[lone_category] = last.rows[1].pctHeld.v
    /\ (scale_call /\ last.fn \notin NasdaqParsers) =>
          parse_rows(last.fn, last.total,
                     <<[last.rows[1] EXCEPT !.pctHeld =
                           NumCell(percent_figure(last.fn, last.total, last.rows[1])
                                       \div scale_of(last.fn))]>>)
              = last.ret

\* u2's parser given the text "4%" for one holder returns 0.04, its
\* threshold.
C22_Witness ==
    /\ scale_call
    /\ last.fn = "u2.parse_institutional_holdings"
    /\ last.rows[1].pctHeld = StrCell(s_4pct)
    /\ last.ret[lone_category] = HOLD_THRESHOLD("u2")

ranking_parser_call == Parsed /\ variant_of(last.fn) = "scanner_pro"

\* The rows of the call's table that have a percentage: the well-formed
\* rows, when the total is usable.
rows_with_pct ==
    IF total_usable(last.fn, last.total)
    THEN {i \in 1..Len(last.rows) : ~malformed(last.fn, last.rows[i])}
    ELSE {}

\* C23 as stated: whatever table and total the ranking scanner's parsers
\* accept, the two figures they return lie in [0, 100].
C23_InRange ==
    ranking_parser_call =>
        \A cat \in {1, 2} : last.ret[cat] >= 0 /\ last.ret[cat] <= Dec(100, 0)

\* C23 amended: the two figures are never negative, and they are at most
\* 100 when no row of the table has a percentage above 100; a percentage
\* above 100 (more shares held than the total, or a text such as "150%") is
\* returned as it is.
C23_NonNegative ==
    ranking_parser_call =>
        /\ \A cat \in {1, 2} : last.ret[cat] >= 0
        /\ (\A i \in rows_with_pct :
                row_pct(last.fn, last.total, last.rows[i]) <= Dec(100, 0))
              => \A cat \in {1, 2} : last.ret[cat] <= Dec(100, 0)
        /\ (lone_plain_row /\ rows_with_pct = {1}
                /\ row_pct(last.fn, last.total, last.rows[1]) >= 0)
              => last.ret[lone_category] = row_pct(last.fn, last.total, last.rows[1])

\* One holder with 1,500,000 shares of a total of 1 million: 150% comes
\* back from the Nasdaq parser.
C23_Witness ==
    /\ ranking_parser_call
    /\ last.fn = "scanner_pro.parse_nasdaq_holdings"
    /\ lone_plain_row
    /\ last.rows[1].sharesHeld = StrCell(s_1_500_000)
    /\ last.total = StrCell(s_one)
    /\ last.ret[lone_category] = Dec(150, 0)

----------------------------------------------------------------------------
(* Claims about the contributing source (SpecTicker) *)

\* What the source a result names reports for a category; None when the
\* name is the name of no source.
reported_by(name, cat) ==
    IF name = "Yahoo" THEN Some(reported(last.yahoo, cat))
    ELSE IF name = "Nasdaq" THEN Some(reported(last.nasdaq, cat))
    ELSE None

\* C24: every result the dual-source scanner returns names, for each
\* category, a source whose report equals the reconciled (greatest) figure,
\* with or without detail output.
C24_ContributingSource ==
    (Returned /\ last.fn = "u2_dual.process_ticker" /\ last.ret # None) =>
        /\ reported_by(last.ret[1].blackrock_source, "br") = Some(last.ret[1].blackrock_pct)
        /\ reported_by(last.ret[1].vanguard_source, "vg") = Some(last.ret[1].vanguard_pct)
        /\ last.ret[1].blackrock_pct = greatest_report("br")
        /\ last.ret[1].vanguard_pct = greatest_report("vg")

\* The same with detail output on, where the sources are worked out.
C24_WithDetails ==
    (Returned /\ last.fn = "u2_dual.process_ticker" /\ last.ret # None /\ last.show_details) =>
        /\ reported_by(last.ret[1].blackrock_source, "br") = Some(last.ret[1].blackrock_pct)
        /\ reported_by(last.ret[1].vanguard_source, "vg") = Some(last.ret[1].vanguard_pct)

----------------------------------------------------------------------------
(* Claims about the tiers of the shipped configuration (Spec) *)

\* The scan ran with the shipped flags: REQUIRE_BOTH_HOLDERS = False.
ShippedRanked == Ranked /\ ~requireBoth

exactly_one_zero(s) == (s.blackrock_pct = 0) # (s.vanguard_pct = 0)

\* C25: with the holding threshold 4.0 and require-any, a security that
\* passed eligibility is in tier 3 iff exactly one of its two percentages is
\* zero; none with both percentages non-zero is in tier 3.
C25_TierThree ==
    ShippedRanked =>
        \A k \in 1..Len(results) :
            /\ results[k].rank_category = 3 <=> exactly_one_zero(results[k])
            /\ (results[k].blackrock_pct # 0 /\ results[k].vanguard_pct # 0)
                  => results[k].rank_category # 3

\* A require-any scan with a security held by Vanguard alone (tier 3) and
\* one that qualifies on one holder with a small non-zero holding of the
\* other (tier 2).
C25_Witness ==
    /\ ShippedRanked
    /\ \E k \in 1..Len(results) :
          /\ results[k].blackrock_pct = 0
          /\ results[k].vanguard_pct >= Dec(4, 0)
          /\ results[k].rank_category = 3
    /\ \E k \in 1..Len(results) :
          /\ results[k].blackrock_pct >= Dec(4, 0)
          /\ results[k].vanguard_pct = Dec(1, 0)
          /\ results[k].rank_category = 2

----------------------------------------------------------------------------
(* Claims about the written results (SpecScan) *)

Written == output # None

\* C26: in every summary save_results_to_json writes, high_tier +
\* medium_tier + low_tier is qualifying_count, premium_count is at most
\* high_tier and at most under_dollar, and qualifying_count is at most the
\* number of tickers the run scanned (itself at most total_processed, the
\* number of tickers requested).
C26_SummaryCounts ==
    Written =>
        LET summary == output[1].summary
        IN  /\ summary.high_tier + summary.medium_tier + summary.low_tier
                  = summary.qualifying_count
            /\ summary.premium_count <= summary.high_tier
            /\ summary.premium_count <= summary.under_dollar
            /\ summary.qualifying_count = Len(output[1].stocks)
            /\ summary.qualifying_count <= Len(tickers_to_scan)
            /\ Len(tickers_to_scan) <= summary.total_processed

\* A run of two tickers that found a tier-1 stock above a dollar and a
\* tier-2 stock under a dollar: premium_count 0 is below high_tier 1 and
\* below under_dollar 1.
C26_Witness ==
    /\ Written
    /\ pc = "done"
    /\ Len(tickers_to_scan) = 2
    /\ output[1].summary.qualifying_count = 2
    /\ output[1].summary.high_tier = 1
    /\ output[1].summary.medium_tier = 1
    /\ output[1].summary.premium_count = 0
    /\ output[1].summary.under_dollar = 1

\* Every requested ticker was among the processed stocks when the run
\* loaded them (and something was requested).
nothing_new == tickers # <<>> /\ seq_set(tickers) \subseteq processed_stocks

\* C27: when every requested ticker is already processed, the run analyses
\* no ticker (it never enters the loop), writes a result with an empty stock
\* list and new_stocks_only true, and the persisted set stays as loaded.
C27_NothingNew ==
    nothing_new =>
        /\ pc = "done"
        /\ analysed = <<>>
        /\ tickers_to_scan = <<>>
        /\ Written
        /\ output[1].stocks = <<>>
        /\ output[1].new_stocks_only = TRUE
        /\ output[1].summary.qualifying_count = 0
        /\ persisted = processed_stocks

\* A second run asked for two tickers, both processed by the first.
C27_Witness ==
    /\ nothing_new
    /\ runs = 2
    /\ Len(tickers) = 2
    /\ tickers[1] # tickers[2]
    /\ pc = "done"
    /\ output[1].stocks = <<>>

====
